---- MODULE Spec2Model ----
(***************************************************************************)
(* Guest record lifecycle of the TukDak API: the service-layer validators  *)
(* (guest-service.ts), the repository's transactional writes               *)
(* (guest-repository.ts) and the storage schema they run against           *)
(* (DATABASE_SCHEMA: CHECK / NOT NULL / FOREIGN KEY constraints, triggers).*)
(***************************************************************************)
EXTENDS Integers, Sequences, FiniteSets, TLC

(***************************************************************************)
(* JavaScript values.  A value carries its typeof tag; strings are         *)
(* sequences of one-character strings so that trim() can be computed.      *)
(***************************************************************************)
UNDEF == [t |-> "undefined"]
NULL == [t |-> "null"]
Num(n) == [t |-> "number", v |-> n]
Str(s) == [t |-> "string", v |-> s]
Bool(b) == [t |-> "boolean", v |-> b]

TypeOf(x) == IF x.t = "null" THEN "object" ELSE x.t

\* JavaScript truthiness: !x is ~Truthy(x)
Truthy(x) ==
  CASE x.t = "undefined" -> FALSE
    [] x.t = "null" -> FALSE
    [] x.t = "number" -> x.v # 0
    [] x.t = "string" -> Len(x.v) > 0
    [] x.t = "boolean" -> x.v

\* x || d
OrElse(x, d) == IF Truthy(x) THEN x ELSE d

\* x ?? d
Coalesce(x, d) == IF x = UNDEF \/ x = NULL THEN d ELSE x

\* s.trim().length === 0 for a character sequence s
TrimIsEmpty(s) == \A i \in 1..Len(s) : s[i] = " "

\* typeof x !== 'string' || x.trim().length === 0
NotNonBlankString(x) == TypeOf(x) # "string" \/ TrimIsEmpty(x.v)

\* x > 0 for a value that is a number when the comparison is reached
Positive(x) == x.t = "number" /\ x.v > 0

(***************************************************************************)
(* String constants of the program.                                        *)
(***************************************************************************)
QR_Code == <<"Q", "R">>
Cash == <<"C", "a">>
Bank == <<"B", "k">>
Bride == <<"B", "r">>
Groom == <<"G", "r">>
Bride_Parents == <<"B", "P">>
Groom_Parents == <<"G", "P">>

PaymentMethods == {QR_Code, Cash}
GuestOfValues == {Bride, Groom, Bride_Parents, Groom_Parents}

\* Request objects: every known key is present in the record and UNDEF stands
\* for an absent key (a JSON body cannot carry an explicit undefined).
RequestKeys ==
  {"guest_id", "english_name", "khmer_name", "amount_khr", "amount_usd",
   "payment_method", "guest_of", "is_duplicate", "nickname"}

Obj(r) == [k \in RequestKeys |-> IF k \in DOMAIN r THEN r[k] ELSE UNDEF]

\* Object.keys(o)
ObjectKeys(o) == {k \in DOMAIN o : o[k] # UNDEF}

(***************************************************************************)
(* Bounds of the model.                                                    *)
(***************************************************************************)
MaxActivity == 5
MaxErrors == 1
MaxHandles == 4

(***************************************************************************)
(* Storage schema (DATABASE_SCHEMA) and the rows of init-db's sample data. *)
(***************************************************************************)
\* CHECK (action IN (...)) of activity_logs
ActivityActionCheck ==
  {"created", "updated", "deleted", "payment_received", "duplicate_marked",
   "duplicate_resolved"}

\* guestlist: name TEXT NOT NULL, guest_of NOT NULL with CHECK, payment_method CHECK
GuestlistConstraints(row) ==
  /\ row.name # NULL
  /\ row.guest_of # NULL
  /\ row.guest_of.t = "string" /\ row.guest_of.v \in GuestOfValues
  /\ row.payment_method = NULL
       \/ (row.payment_method.t = "string" /\ row.payment_method.v \in PaymentMethods)

G1 == <<"G", "1">>
G6 == <<"G", "6">>
N1 == <<"N", "1">>

\* insertSampleData rows (amounts scaled to small units); english_name is the
\* copy of name made when the name columns were added, khmer_name is NULL.
\* created_at is the second of the one transaction that inserts them all.
SampleGuests ==
  (G1 :> [guest_id |-> Str(G1), name |-> Str(<<"S">>), english_name |-> Str(<<"S">>),
          khmer_name |-> NULL, amount_khr |-> Num(1), amount_usd |-> Num(1),
          payment_method |-> Str(QR_Code), guest_of |-> Str(Bride),
          is_duplicate |-> Num(0), created_at |-> Num(0)])
  @@
  (G6 :> [guest_id |-> Str(G6), name |-> Str(<<"H">>), english_name |-> Str(<<"H">>),
          khmer_name |-> NULL, amount_khr |-> Num(0), amount_usd |-> Num(0),
          payment_method |-> Str(QR_Code), guest_of |-> Str(Groom),
          is_duplicate |-> Num(0), created_at |-> Num(0)])

\* the values an INSERT INTO activity_logs supplies (id is assigned by the table)
LogRow(gid, action, ok, nk, ou, nu) ==
  [guest_id |-> gid, action |-> action, old_amount_khr |-> ok, new_amount_khr |-> nk,
   old_amount_usd |-> ou, new_amount_usd |-> nu]

\* id INTEGER PRIMARY KEY AUTOINCREMENT
WithId(row, id) == [k \in DOMAIN row \cup {"id"} |-> IF k = "id" THEN id ELSE row[k]]

SampleActivity ==
  << WithId(LogRow(G1, "created", NULL, NULL, NULL, NULL), 1),
     WithId(LogRow(G1, "payment_received", NULL, NULL, NULL, NULL), 2),
     WithId(LogRow(G6, "created", NULL, NULL, NULL, NULL), 3) >>

\* guestlist: guest_id -> row; activity_logs, error_logs: rows in insertion order;
\* activity_seq: the AUTOINCREMENT counter of activity_logs; last: the most recent
\* service call and what its caller observed.
VARIABLES guestlist, activity_logs, activity_seq, error_logs, last, connection, inflight

vars == <<guestlist, activity_logs, activity_seq, error_logs, last, connection, inflight>>

(***************************************************************************)
(* DatabaseConnection (connection.ts).  connection holds the fields of the *)
(* singleton (db, isInitialized, config.maxRetries), the handles opened    *)
(* (1..opened) and closed so far, and for every caller of connect() where  *)
(* its call stands: a call runs without interruption from one await to the *)
(* next.                                                                   *)
(***************************************************************************)
Callers == {"a", "b"}

\* this.db = null
NoHandle == 0

\* maxRetries: 3 of the constructor's defaults
DefaultMaxRetries == 3

\* a caller that has no connect() call running
NoCall ==
  [pc |-> "idle", attempt |-> 0, attempts |-> 0, waits |-> 0, result |-> NoHandle,
   schemaOk |-> FALSE]

\* new DatabaseConnection(config)
NewConnection(maxRetries) ==
  [db |-> NoHandle, isInitialized |-> FALSE, maxRetries |-> maxRetries, opened |-> 0,
   closed |-> {}, calls |-> [c \in Callers |-> NoCall]]

\* a catch block that leaves the handle open and stored
CatchAttemptKeepingHandle(conn, c) ==
  [conn EXCEPT !.calls[c] =
     IF @.attempt < conn.maxRetries
     THEN [@ EXCEPT !.pc = "retryDelay", !.waits = @ + 1]
     ELSE [@ EXCEPT !.pc = "failed"]]

\* catch (error): close and forget whatever handle this.db holds, then wait
\* retryDelay if attempts are left, else leave the loop and throw
CatchAttempt(conn, c) ==
  [conn EXCEPT !.closed = IF conn.db # NoHandle THEN @ \cup {conn.db} ELSE @,
               !.db = NoHandle,
               !.calls[c] =
                 IF @.attempt < conn.maxRetries
                 THEN [@ EXCEPT !.pc = "retryDelay", !.waits = @ + 1]
                 ELSE [@ EXCEPT !.pc = "failed"]]

\* what the try block can do before it awaits, returns or throws
AttemptOutcomes == {"open_throws", "pragma_throws", "schema_throws", "connected"}

\* one pass of the for loop, from the top of the try block to the next await:
\* new Database(...) stores the handle in this.db; a throw goes to the catch block;
\* initializeSchema runs to its end (it awaits nothing) before connect awaits it
Attempt(conn, c, attempt, outcome) ==
  LET handle == conn.opened + 1
      begun == [conn EXCEPT !.calls[c].attempt = attempt, !.calls[c].attempts = @ + 1]
      opened == [begun EXCEPT !.db = handle, !.opened = handle]
  IN IF outcome = "open_throws" THEN CatchAttempt(begun, c)
     ELSE IF outcome = "pragma_throws" THEN CatchAttempt(opened, c)
     ELSE IF ~conn.isInitialized
     THEN [opened EXCEPT !.calls[c].pc = "initializeSchema",
                         !.calls[c].schemaOk = (outcome = "connected")]
     ELSE [opened EXCEPT !.calls[c].pc = "returned", !.calls[c].result = handle]

\* connect() up to its first await
ConnectCall(conn, c, outcome) ==
  IF conn.db # NoHandle /\ conn.isInitialized
  THEN [conn EXCEPT !.calls[c] = [NoCall EXCEPT !.pc = "returned", !.result = conn.db]]
  ELSE IF 1 <= conn.maxRetries THEN Attempt(conn, c, 1, outcome)
  ELSE [conn EXCEPT !.calls[c] = [NoCall EXCEPT !.pc = "failed"]]

\* connect() resumed after await this.initializeSchema()
AfterInitializeSchema(conn, c) ==
  IF conn.calls[c].schemaOk
  THEN [conn EXCEPT !.isInitialized = TRUE,
                    !.calls[c].pc = "returned", !.calls[c].result = conn.db]
  ELSE CatchAttempt(conn, c)

\* connect() resumed after the retryDelay timer: attempt++ and the next pass
AfterRetryDelay(conn, c, outcome) ==
  Attempt(conn, c, conn.calls[c].attempt + 1, outcome)

\* a pass that opens a handle
Opens(conn, outcome) ==
  outcome # "open_throws" /\ ~(conn.db # NoHandle /\ conn.isInitialized)

\* a caller calls connect(); sequential callers wait for the call before theirs
Connect(c, sequential) ==
  /\ connection.calls[c].pc = "idle"
  /\ sequential => \A o \in Callers : connection.calls[o].pc = "idle"
  /\ \E outcome \in AttemptOutcomes :
       /\ Opens(connection, outcome) => connection.opened < MaxHandles
       /\ connection' = ConnectCall(connection, c, outcome)
  /\ UNCHANGED <<guestlist, activity_logs, activity_seq, error_logs, last, inflight>>

SchemaInitialized(c) ==
  /\ connection.calls[c].pc = "initializeSchema"
  /\ connection' = AfterInitializeSchema(connection, c)
  /\ UNCHANGED <<guestlist, activity_logs, activity_seq, error_logs, last, inflight>>

RetryDelayElapsed(c) ==
  /\ connection.calls[c].pc = "retryDelay"
  /\ \E outcome \in AttemptOutcomes :
       /\ outcome # "open_throws" => connection.opened < MaxHandles
       /\ connection' = AfterRetryDelay(connection, c, outcome)
  /\ UNCHANGED <<guestlist, activity_logs, activity_seq, error_logs, last, inflight>>

\* the caller takes the handle or the error of its finished call
ConnectSettled(c) ==
  /\ connection.calls[c].pc \in {"returned", "failed"}
  /\ connection' = [connection EXCEPT !.calls[c] = NoCall]
  /\ UNCHANGED <<guestlist, activity_logs, activity_seq, error_logs, last, inflight>>


(***************************************************************************)
(* Repository calls in flight: a call that has awaited getGuestById holds  *)
(* the guest it read until its transaction runs.                           *)
(***************************************************************************)
NoRequest == [op |-> "none"]

NothingInFlight == [c \in Callers |-> NoRequest]

(***************************************************************************)
(* Storage statements.  A statement either succeeds or throws SqliteError  *)
(* and leaves the database as it was (statement-level atomicity).  `fault` *)
(* lets the environment make one kind of statement throw (disk full, I/O   *)
(* error): "write" a guestlist write, "activity" an application-level      *)
(* activity_logs insert, "errorlog" the error_logs insert.                 *)
(***************************************************************************)
Faults == {"none", "write", "activity", "errorlog"}

\* better-sqlite3 binds numbers, strings and null only
Bindable(x) == x.t \in {"number", "string", "null"}

\* activity_logs: CHECK on action, FOREIGN KEY (guest_id) REFERENCES guestlist
ActivityConstraints(db, row) ==
  /\ row.action \in ActivityActionCheck
  /\ row.guest_id \in DOMAIN db.g

\* a log that keeps one row per guest: the new row takes the place of the older ones
InsertActivityRowPerGuest(db, row) ==
  IF ActivityConstraints(db, row)
  THEN [err |-> "none",
        db |-> [db EXCEPT !.a = Append(SelectSeq(@, LAMBDA r : r.guest_id # row.guest_id),
                                       WithId(row, db.seq + 1)),
                          !.seq = @ + 1]]
  ELSE [err |-> "SqliteError", db |-> db]

\* INSERT INTO activity_logs: AUTOINCREMENT id, CHECK and FOREIGN KEY
InsertActivityRow(db, row) ==
  IF ActivityConstraints(db, row)
  THEN [err |-> "none",
        db |-> [db EXCEPT !.a = Append(@, WithId(row, db.seq + 1)), !.seq = @ + 1]]
  ELSE [err |-> "SqliteError", db |-> db]

\* insertActivity.run(...)
RunInsertActivity(db, row, fault) ==
  IF fault = "activity" THEN [err |-> "SqliteError", db |-> db]
  ELSE InsertActivityRow(db, row)

\* trigger log_guestlist_changes: AFTER UPDATE ... WHEN the amounts differ
LogGuestlistChanges(db, old, new) ==
  IF old.amount_khr # new.amount_khr \/ old.amount_usd # new.amount_usd
  THEN InsertActivityRow(db, LogRow(new.guest_id.v, "updated", old.amount_khr,
                                    new.amount_khr, old.amount_usd, new.amount_usd))
  ELSE [err |-> "none", db |-> db]

\* UPDATE guestlist SET <sets> WHERE guest_id = id   (sets: column -> value)
RunUpdateGuest(db, id, sets, fault) ==
  IF fault = "write" \/ \E c \in DOMAIN sets : ~Bindable(sets[c])
  THEN [err |-> "SqliteError", changes |-> 0, db |-> db]
  ELSE IF id \notin DOMAIN db.g THEN [err |-> "none", changes |-> 0, db |-> db]
  ELSE LET old == db.g[id]
           new == [c \in DOMAIN old |-> IF c \in DOMAIN sets THEN sets[c] ELSE old[c]]
           trg == LogGuestlistChanges([db EXCEPT !.g[id] = new], old, new)
       IN IF ~GuestlistConstraints(new) \/ trg.err # "none"
          THEN [err |-> "SqliteError", changes |-> 0, db |-> db]
          ELSE [err |-> "none", changes |-> 1, db |-> trg.db]

\* created_at DEFAULT CURRENT_TIMESTAMP: a reading of the clock after every stored row
CurrentTimestamp(db) ==
  Num(1 + (CHOOSE m \in {0} \cup {db.g[k].created_at.v : k \in DOMAIN db.g} :
             \A k \in DOMAIN db.g : db.g[k].created_at.v <= m))

\* INSERT INTO guestlist (...) VALUES (...): PRIMARY KEY, NOT NULL and CHECKs
RunInsertGuest(db, row, fault) ==
  IF \/ fault = "write"
     \/ \E c \in DOMAIN row : ~Bindable(row[c])
     \/ row.guest_id.v \in DOMAIN db.g
     \/ ~GuestlistConstraints(row)
  THEN [err |-> "SqliteError", db |-> db]
  ELSE [err |-> "none",
        db |-> [db EXCEPT !.g = row.guest_id.v :> (row @@ [created_at |-> CurrentTimestamp(db)])
                                @@ @]]

\* a DELETE without ON DELETE CASCADE: the guest's activity rows stay behind
RunDeleteGuestKeepingLogs(db, id, fault) ==
  IF fault = "write" THEN [err |-> "SqliteError", changes |-> 0, db |-> db]
  ELSE IF id \notin DOMAIN db.g THEN [err |-> "none", changes |-> 0, db |-> db]
  ELSE [err |-> "none", changes |-> 1,
        db |-> [g |-> [k \in DOMAIN db.g \ {id} |-> db.g[k]], a |-> db.a, seq |-> db.seq]]

\* DELETE FROM guestlist WHERE guest_id = id, with ON DELETE CASCADE
RunDeleteGuest(db, id, fault) ==
  IF fault = "write" THEN [err |-> "SqliteError", changes |-> 0, db |-> db]
  ELSE IF id \notin DOMAIN db.g THEN [err |-> "none", changes |-> 0, db |-> db]
  ELSE [err |-> "none", changes |-> 1,
        db |-> [g |-> [k \in DOMAIN db.g \ {id} |-> db.g[k]],
                a |-> SelectSeq(db.a, LAMBDA r : r.guest_id # id),
                seq |-> db.seq]]

\* a transaction wrapper that keeps what fn wrote before it threw
TransactionWithoutRollback(db, tx) == tx.db

\* db.transaction(fn)(): commit when fn returns, roll back when it throws.
\* tx.db is the database as fn left it, tx.err what it threw.
Transaction(db, tx) == IF tx.err = "none" THEN tx.db ELSE db

\* logError: best-effort INSERT INTO error_logs
LogError(e, errorType, fault) ==
  IF fault = "errorlog" THEN e ELSE Append(e, errorType)

(***************************************************************************)
(* Results of a repository call.                                           *)
(***************************************************************************)
Outcome(kind, msg, result, db, e, storage, partial) ==
  [outcome |-> kind, message |-> msg, result |-> result, db |-> db, e |-> e,
   storage |-> storage, partial |-> partial]

\* the columns getGuestById selects (timestamps left out of the model)
SelectedColumns ==
  {"guest_id", "khmer_name", "english_name", "amount_khr", "amount_usd", "payment_method",
   "guest_of", "is_duplicate"}

\* SELECT <columns> FROM guestlist WHERE guest_id = ?  (exact, case-sensitive)
\* with is_duplicate converted by Boolean()
ReadGuest(g, id) ==
  IF id \in DOMAIN g
  THEN [c \in SelectedColumns |->
          IF c = "is_duplicate" THEN Bool(Truthy(g[id][c])) ELSE g[id][c]]
  ELSE NULL

\* GuestRepository.getGuestById
RepoGetGuestById(db, e, id) ==
  IF id \in DOMAIN db.g
  THEN Outcome("ok", "", ReadGuest(db.g, id), db, e, {"guestlist"}, FALSE)
  ELSE Outcome("NotFoundError", "not found", NULL, db, e, {"guestlist"}, FALSE)

\* a uniqueness check that overlooks soft-deleted rows
ExistingGuestAmongActive(db, id) ==
  id \in DOMAIN db.g /\ db.g[id].is_duplicate = Num(0)

\* SELECT guest_id FROM guestlist WHERE guest_id = ?
ExistingGuest(db, id) == id \in DOMAIN db.g

\* the transaction body of createGuest
CreateGuestTx(db, row, fault) ==
  LET i == RunInsertGuest(db, row, fault)
      c == RunInsertActivity(i.db, LogRow(row.guest_id.v, "created", NULL, NULL, NULL, NULL),
                             fault)
      p == RunInsertActivity(c.db, LogRow(row.guest_id.v, "payment_received",
                                          NULL, NULL, NULL, NULL), fault)
  IN IF i.err # "none" THEN [err |-> i.err, db |-> i.db]
     ELSE IF c.err # "none" THEN [err |-> c.err, db |-> c.db]
     ELSE IF Positive(row.amount_khr) \/ Positive(row.amount_usd) THEN [err |-> p.err, db |-> p.db]
     ELSE [err |-> "none", db |-> c.db]

\* GuestRepository.createGuest
RepoCreateGuest(db, e, data, fault) ==
  LET id == data.guest_id.v
      row == [guest_id |-> data.guest_id,
              name |-> NULL,
              english_name |-> data.english_name,
              khmer_name |-> data.khmer_name,
              amount_khr |-> OrElse(data.amount_khr, Num(0)),
              amount_usd |-> OrElse(data.amount_usd, Num(0)),
              payment_method |-> OrElse(data.payment_method, NULL),
              guest_of |-> data.guest_of,
              is_duplicate |-> Num(0)]
      tx == CreateGuestTx(db, row, fault)
      done == Transaction(db, tx)
  IN IF ExistingGuest(db, id)
     THEN Outcome("ConflictError", "already exists", NULL, db,
                  LogError(e, "CREATE_GUEST_ERROR", fault),
                  {"guestlist", "error_logs"}, FALSE)
     ELSE IF tx.err # "none"
     THEN Outcome(tx.err, "storage", NULL, done,
                  LogError(e, "CREATE_GUEST_ERROR", fault),
                  {"guestlist", "activity_logs", "error_logs"}, tx.db # db)
     ELSE Outcome("ok", "", ReadGuest(done.g, id), done, e,
                  {"guestlist", "activity_logs"}, FALSE)

\* the transaction body of updateGuest
UpdateGuestTx(db, id, sets, updates, currentGuest, fault) ==
  LET u == RunUpdateGuest(db, id, sets, fault)
      l == RunInsertActivity(u.db,
             LogRow(id, "updated",
                    IF updates.amount_khr # UNDEF THEN currentGuest.amount_khr ELSE NULL,
                    IF updates.amount_khr # UNDEF THEN updates.amount_khr ELSE NULL,
                    IF updates.amount_usd # UNDEF THEN currentGuest.amount_usd ELSE NULL,
                    IF updates.amount_usd # UNDEF THEN updates.amount_usd ELSE NULL),
             fault)
  IN IF u.err # "none" THEN [err |-> u.err, db |-> u.db]
     ELSE IF u.changes = 0 THEN [err |-> "NotFoundError", db |-> u.db]
     ELSE [err |-> l.err, db |-> l.db]

\* a whitelist that lets guest_of into the SET clause
RepoUpdateAllowedFieldsWithGuestOf ==
  {"name", "amount_khr", "amount_usd", "payment_method", "is_duplicate", "guest_of"}

\* the whitelist of updateGuest's dynamic SET clause
RepoUpdateAllowedFields == {"name", "amount_khr", "amount_usd", "payment_method", "is_duplicate"}

\* the SET clause: whitelisted keys with a defined value, booleans as 0 / 1
UpdateSets(updates) ==
  [k \in ObjectKeys(updates) \cap RepoUpdateAllowedFields |->
     IF k = "is_duplicate" /\ updates[k].t = "boolean"
     THEN Num(IF updates[k].v THEN 1 ELSE 0)
     ELSE updates[k]]

\* updateGuest resumed after  await this.getGuestById(guestId)  with the guest it read
UpdateGuestAfterRead(db, e, id, updates, currentGuest, fault) ==
  LET sets == UpdateSets(updates)
      tx == UpdateGuestTx(db, id, sets, updates, currentGuest, fault)
      done == Transaction(db, tx)
  IN IF DOMAIN sets = {}
     THEN Outcome("ValidationError", "No valid fields provided for update", NULL, db, e,
                  {"guestlist"}, FALSE)
     ELSE IF tx.err = "NotFoundError"
     THEN Outcome("NotFoundError", "not found", NULL, done, e,
                  {"guestlist", "activity_logs"}, tx.db # db)
     ELSE IF tx.err # "none"
     THEN Outcome(tx.err, "storage", NULL, done,
                  LogError(e, "UPDATE_GUEST_ERROR", fault),
                  {"guestlist", "activity_logs", "error_logs"}, tx.db # db)
     ELSE Outcome("ok", "", ReadGuest(done.g, id), done, e,
                  {"guestlist", "activity_logs"}, FALSE)

\* GuestRepository.updateGuest, run without another call in between
RepoUpdateGuest(db, e, id, updates, fault) ==
  IF id \notin DOMAIN db.g
  THEN Outcome("NotFoundError", "not found", NULL, db, e, {"guestlist"}, FALSE)
  ELSE UpdateGuestAfterRead(db, e, id, updates, ReadGuest(db.g, id), fault)

\* the transaction body of checkInGuest
CheckInGuestTx(db, id, amount_khr, amount_usd, payment_method, currentGuest, fault) ==
  LET alreadyCheckedIn == Positive(currentGuest.amount_khr) \/ Positive(currentGuest.amount_usd)
      u == RunUpdateGuest(db, id,
                          [amount_khr |-> amount_khr, amount_usd |-> amount_usd,
                           payment_method |-> payment_method], fault)
      l == RunInsertActivity(u.db,
             LogRow(id, IF alreadyCheckedIn THEN "payment_updated" ELSE "checked_in",
                    currentGuest.amount_khr, amount_khr, currentGuest.amount_usd, amount_usd),
             fault)
  IN IF u.err # "none" THEN [err |-> u.err, db |-> u.db]
     ELSE IF u.changes = 0 THEN [err |-> "NotFoundError", db |-> u.db]
     ELSE [err |-> l.err, db |-> l.db]

\* checkInGuest resumed after  await this.getGuestById(guestId)  with the guest it read
CheckInGuestAfterRead(db, e, id, paymentData, currentGuest, fault) ==
  LET tx == CheckInGuestTx(db, id, OrElse(paymentData.amount_khr, Num(0)),
                           OrElse(paymentData.amount_usd, Num(0)),
                           paymentData.payment_method, currentGuest, fault)
      done == Transaction(db, tx)
  IN IF ~Truthy(paymentData.payment_method)
     THEN Outcome("ValidationError", "Payment method is required for check-in", NULL,
                  db, e, {"guestlist"}, FALSE)
     ELSE IF ~Truthy(paymentData.amount_khr) /\ ~Truthy(paymentData.amount_usd)
     THEN Outcome("ValidationError", "At least one payment amount (KHR or USD) is required",
                  NULL, db, e, {"guestlist"}, FALSE)
     ELSE IF paymentData.amount_khr # UNDEF /\ paymentData.amount_khr.v < 0
     THEN Outcome("ValidationError", "Amount KHR cannot be negative", NULL, db, e,
                  {"guestlist"}, FALSE)
     ELSE IF paymentData.amount_usd # UNDEF /\ paymentData.amount_usd.v < 0
     THEN Outcome("ValidationError", "Amount USD cannot be negative", NULL, db, e,
                  {"guestlist"}, FALSE)
     ELSE IF tx.err = "NotFoundError"
     THEN Outcome("NotFoundError", "not found", NULL, done, e,
                  {"guestlist", "activity_logs"}, tx.db # db)
     ELSE IF tx.err # "none"
     THEN Outcome(tx.err, "storage", NULL, done,
                  LogError(e, "CHECK_IN_GUEST_ERROR", fault),
                  {"guestlist", "activity_logs", "error_logs"}, tx.db # db)
     ELSE Outcome("ok", "", ReadGuest(done.g, id), done, e,
                  {"guestlist", "activity_logs"}, FALSE)

\* GuestRepository.checkInGuest, run without another call in between
RepoCheckInGuest(db, e, id, paymentData, fault) ==
  IF id \notin DOMAIN db.g
  THEN Outcome("NotFoundError", "not found", NULL, db, e, {"guestlist"}, FALSE)
  ELSE CheckInGuestAfterRead(db, e, id, paymentData, ReadGuest(db.g, id), fault)

\* a soft delete whose UPDATE has lost its WHERE clause: every row is marked
SoftDeleteTxEveryRow(db, id, fault) ==
  LET marked == [db EXCEPT !.g = [k \in DOMAIN db.g |->
                                     [db.g[k] EXCEPT !.is_duplicate = Num(1)]]]
      l == RunInsertActivity(marked, LogRow(id, "deleted", NULL, NULL, NULL, NULL), fault)
  IN IF fault = "write" THEN [err |-> "SqliteError", db |-> db]
     ELSE [err |-> l.err, db |-> l.db]

\* the transaction body of the soft delete
SoftDeleteTx(db, id, fault) ==
  LET u == RunUpdateGuest(db, id, [is_duplicate |-> Num(1)], fault)
      l == RunInsertActivity(u.db, LogRow(id, "deleted", NULL, NULL, NULL, NULL), fault)
  IN IF u.err # "none" THEN [err |-> u.err, db |-> u.db]
     ELSE IF u.changes = 0 THEN [err |-> "NotFoundError", db |-> u.db]
     ELSE [err |-> l.err, db |-> l.db]

\* the transaction body of the hard delete
HardDeleteTx(db, id, fault) ==
  LET l == RunInsertActivity(db, LogRow(id, "deleted", NULL, NULL, NULL, NULL), fault)
      d == RunDeleteGuest(l.db, id, fault)
  IN IF l.err # "none" THEN [err |-> l.err, db |-> l.db]
     ELSE IF d.err # "none" THEN [err |-> d.err, db |-> d.db]
     ELSE IF d.changes = 0 THEN [err |-> "NotFoundError", db |-> d.db]
     ELSE [err |-> "none", db |-> d.db]

\* GuestRepository.deleteGuest
RepoDeleteGuest(db, e, id, softDelete, fault) ==
  LET tx == IF softDelete THEN SoftDeleteTx(db, id, fault) ELSE HardDeleteTx(db, id, fault)
      done == Transaction(db, tx)
  IN IF id \notin DOMAIN db.g
     THEN Outcome("NotFoundError", "not found", NULL, db, e, {"guestlist"}, FALSE)
     ELSE IF tx.err = "NotFoundError"
     THEN Outcome("NotFoundError", "not found", NULL, done, e,
                  {"guestlist", "activity_logs"}, tx.db # db)
     ELSE IF tx.err # "none"
     THEN Outcome(tx.err, "storage", NULL, done,
                  LogError(e, "DELETE_GUEST_ERROR", fault),
                  {"guestlist", "activity_logs", "error_logs"}, tx.db # db)
     ELSE Outcome("ok", "", Bool(TRUE), done, e,
                  {"guestlist", "activity_logs"}, FALSE)

(***************************************************************************)
(* Search and statistics (read-only queries of the repository).            *)
(***************************************************************************)
UpperCase ==
  <<"A", "B", "C", "D", "E", "F", "G", "H", "I", "J", "K", "L", "M",
    "N", "O", "P", "Q", "R", "S", "T", "U", "V", "W", "X", "Y", "Z">>
LowerCase ==
  <<"a", "b", "c", "d", "e", "f", "g", "h", "i", "j", "k", "l", "m",
    "n", "o", "p", "q", "r", "s", "t", "u", "v", "w", "x", "y", "z">>

\* SQL LOWER(): folds the ASCII letters only
Lower(s) ==
  [i \in 1..Len(s) |->
     IF \E k \in 1..Len(UpperCase) : UpperCase[k] = s[i]
     THEN LowerCase[CHOOSE k \in 1..Len(UpperCase) : UpperCase[k] = s[i]]
     ELSE s[i]]

\* String.prototype.trim()
Trim(s) ==
  IF TrimIsEmpty(s) THEN <<>>
  ELSE SubSeq(s, CHOOSE i \in 1..Len(s) : s[i] # " " /\ \A j \in 1..(i - 1) : s[j] = " ",
                 CHOOSE i \in 1..Len(s) : s[i] # " " /\ \A j \in (i + 1)..Len(s) : s[j] = " ")

\* the characters the first replace() of sanitizeSearchQuery removes (the backquote,
\* which no query of this model contains, is not listed)
InjectionCharacters == {"'", "\"", ";", "\\"}

\* the second replace(): a backslash goes in front of every % and _
RECURSIVE EscapeWildcards(_)
EscapeWildcards(s) ==
  IF s = <<>> THEN <<>>
  ELSE (IF Head(s) \in {"%", "_"} THEN <<"\\", Head(s)>> ELSE <<Head(s)>>)
       \o EscapeWildcards(Tail(s))

\* .substring(0, 100) and the service's query.length > 100
MaxQueryLength == 100

\* GuestRepository.sanitizeSearchQuery
SanitizeSearchQuery(query) ==
  IF TypeOf(query) # "string" THEN <<>>
  ELSE LET kept == SelectSeq(Trim(query.v), LAMBDA c : c \notin InjectionCharacters)
           escaped == EscapeWildcards(kept)
       IN SubSeq(escaped, 1, IF Len(escaped) < MaxQueryLength THEN Len(escaped)
                             ELSE MaxQueryLength)

\* SQL  s LIKE p  without an ESCAPE clause: % is any run of characters, _ any one
\* character, a backslash is an ordinary character; letters compare without case
RECURSIVE Like(_, _)
Like(p, s) ==
  IF p = <<>> THEN s = <<>>
  ELSE IF Head(p) = "%" THEN Like(Tail(p), s) \/ (s # <<>> /\ Like(p, Tail(s)))
  ELSE /\ s # <<>>
       /\ (Head(p) = "_" \/ Lower(<<Head(p)>>) = Lower(<<Head(s)>>))
       /\ Like(Tail(p), Tail(s))

SearchTypes == {"guest_id", "english_name", "khmer_name"}

\* `%${sanitizedQuery}%`
LikePattern(sanitizedQuery) == <<"%">> \o sanitizedQuery \o <<"%">>

\* the WHERE clause of the search without its is_duplicate term; a NULL column
\* makes the comparison NULL, which selects nothing
SearchMatches(row, sanitizedQuery, searchType) ==
  IF searchType = "guest_id"
  THEN Lower(row.guest_id.v) = Lower(sanitizedQuery)
  ELSE /\ row[searchType].t = "string"
       /\ Like(Lower(LikePattern(sanitizedQuery)), Lower(row[searchType].v))

\* a search whose WHERE clause has lost  AND is_duplicate = 0
SearchHitsWithDuplicates(g, sanitizedQuery, searchType) ==
  {id \in DOMAIN g : SearchMatches(g[id], sanitizedQuery, searchType)}

\* WHERE <match> AND is_duplicate = 0
SearchHits(g, sanitizedQuery, searchType) ==
  {id \in DOMAIN g : /\ SearchMatches(g[id], sanitizedQuery, searchType)
                     /\ g[id].is_duplicate = Num(0)}

\* a ranking that puts every hit in one tier
SearchTierFlat(row, sanitizedQuery, searchType) == 1

\* ORDER BY CASE WHEN LOWER(col) = LOWER(?) THEN 1 WHEN LOWER(col) LIKE LOWER(?) THEN 2
\* ELSE 3 END; the guest_id search has no CASE term
SearchTier(row, sanitizedQuery, searchType) ==
  IF searchType = "guest_id" THEN 1
  ELSE IF Lower(row[searchType].v) = Lower(sanitizedQuery) THEN 1
  ELSE IF Like(Lower(LikePattern(sanitizedQuery)), Lower(row[searchType].v)) THEN 2
  ELSE 3

\* the orders ORDER BY <tier>, created_at DESC allows for the hits: rows that tie on
\* both keys come in whatever order the engine visits them
SearchOrders(g, hits, sanitizedQuery, searchType) ==
  {s \in [1..Cardinality(hits) -> hits] :
     /\ \A i, j \in DOMAIN s : i # j => s[i] # s[j]
     /\ \A i, j \in DOMAIN s :
          i < j =>
            LET ti == SearchTier(g[s[i]], sanitizedQuery, searchType)
                tj == SearchTier(g[s[j]], sanitizedQuery, searchType)
            IN ti < tj \/ (ti = tj /\ g[s[i]].created_at.v >= g[s[j]].created_at.v)}

\* LIMIT ? OFFSET ?
LimitOffset(s, limit, offset) ==
  SubSeq(s, offset + 1, IF offset + limit < Len(s) THEN offset + limit ELSE Len(s))

\* guests.map(guest => ({...})) in searchGuests
SearchedGuest(row) ==
  [guest_id |-> row.guest_id,
   english_name |-> OrElse(row.english_name, NULL),
   khmer_name |-> OrElse(row.khmer_name, NULL),
   amount_khr |-> OrElse(row.amount_khr, Num(0)),
   amount_usd |-> OrElse(row.amount_usd, Num(0)),
   payment_method |-> OrElse(row.payment_method, NULL),
   guest_of |-> row.guest_of,
   is_duplicate |-> Bool(Truthy(row.is_duplicate))]

\* 'SEARCH', the guest_id logSearchActivity writes
SEARCH == <<"S", "E", "A", "R", "C", "H">>

\* GuestRepository.logSearchActivity: the insert is tried and its failure swallowed
LogSearchActivity(db, fault) ==
  RunInsertActivity(db, LogRow(SEARCH, "searched", NULL, NULL, NULL, NULL), fault).db

\* the action values of the insertActivity.run(...) calls of the repository
RepoWrittenActions ==
  {"created", "payment_received", "updated", "checked_in", "payment_updated", "deleted",
   "searched"}

SearchResult(guests, total_count, query_used, search_type) ==
  [guests |-> guests, total_count |-> total_count, query_used |-> query_used,
   search_type |-> search_type]

\* a searchGuests that runs its queries whatever the sanitized query is
RepoSearchGuestsWithoutShortcut(db, e, query, searchType, limit, offset, fault) ==
  LET sanitizedQuery == SanitizeSearchQuery(query)
      hits == SearchHits(db.g, sanitizedQuery, searchType)
  IN IF searchType \notin SearchTypes
     THEN {Outcome("ValidationError", "Invalid search type", NULL, db,
                   LogError(e, "SEARCH_GUESTS_ERROR", fault), {"error_logs"}, FALSE)}
     ELSE {Outcome("ok", "",
                   SearchResult([i \in DOMAIN LimitOffset(s, limit, offset) |->
                                   SearchedGuest(db.g[LimitOffset(s, limit, offset)[i]])],
                                Cardinality(hits), sanitizedQuery, searchType),
                   LogSearchActivity(db, fault), e, {"guestlist", "activity_logs"}, FALSE) :
             s \in SearchOrders(db.g, hits, sanitizedQuery, searchType)}

\* GuestRepository.searchGuests: the results it can return
RepoSearchGuests(db, e, query, searchType, limit, offset, fault) ==
  LET sanitizedQuery == SanitizeSearchQuery(query)
      hits == SearchHits(db.g, sanitizedQuery, searchType)
  IN IF sanitizedQuery = <<>>
     THEN {Outcome("ok", "", SearchResult(<<>>, 0, sanitizedQuery, searchType), db, e,
                   {}, FALSE)}
     ELSE IF searchType \notin SearchTypes
     THEN {Outcome("ValidationError", "Invalid search type", NULL, db,
                   LogError(e, "SEARCH_GUESTS_ERROR", fault), {"error_logs"}, FALSE)}
     ELSE {Outcome("ok", "",
                   SearchResult([i \in DOMAIN LimitOffset(s, limit, offset) |->
                                   SearchedGuest(db.g[LimitOffset(s, limit, offset)[i]])],
                                Cardinality(hits), sanitizedQuery, searchType),
                   LogSearchActivity(db, fault), e, {"guestlist", "activity_logs"}, FALSE) :
             s \in SearchOrders(db.g, hits, sanitizedQuery, searchType)}

\* SUM(column) over the selected rows, NULL when there is none
RECURSIVE SumColumn(_, _, _)
SumColumn(g, ids, column) ==
  IF ids = {} THEN NULL
  ELSE LET id == CHOOSE x \in ids : TRUE
           rest == SumColumn(g, ids \ {id}, column)
       IN IF g[id][column] = NULL THEN rest
          ELSE Num(g[id][column].v + (IF rest = NULL THEN 0 ELSE rest.v))

\* statistics whose query has lost  WHERE is_duplicate = 0
StatisticsRowsAll(g) == DOMAIN g

\* FROM guestlist WHERE is_duplicate = 0
StatisticsRows(g) == {id \in DOMAIN g : g[id].is_duplicate = Num(0)}

\* GuestRepository.getGuestStatistics; COUNT(CASE WHEN c THEN 1 END) counts the
\* selected rows for which c holds
RepoGetGuestStatistics(db, e) ==
  LET ids == StatisticsRows(db.g)
      g == db.g
  IN Outcome("ok", "",
       [total_guests |-> Cardinality(ids),
        total_khr |-> OrElse(SumColumn(g, ids, "amount_khr"), Num(0)).v,
        total_usd |-> OrElse(SumColumn(g, ids, "amount_usd"), Num(0)).v,
        paid_guests |->
          Cardinality({id \in ids : Positive(g[id].amount_khr) \/ Positive(g[id].amount_usd)}),
        pending_guests |->
          Cardinality({id \in ids : \/ g[id].amount_khr = Num(0) /\ g[id].amount_usd = Num(0)
                                    \/ g[id].amount_khr = NULL /\ g[id].amount_usd = NULL}),
        duplicates |-> Cardinality({id \in ids : g[id].is_duplicate = Num(1)}),
        payment_methods |->
          [qr_code |-> Cardinality({id \in ids : g[id].payment_method = Str(QR_Code)}),
           cash |-> Cardinality({id \in ids : g[id].payment_method = Str(Cash)}),
           pending |-> Cardinality({id \in ids : g[id].payment_method = NULL})],
        guest_distribution |->
          [bride |-> Cardinality({id \in ids : g[id].guest_of = Str(Bride)}),
           groom |-> Cardinality({id \in ids : g[id].guest_of = Str(Groom)}),
           bride_parents |-> Cardinality({id \in ids : g[id].guest_of = Str(Bride_Parents)}),
           groom_parents |-> Cardinality({id \in ids : g[id].guest_of = Str(Groom_Parents)})]],
       db, e, {"guestlist"}, FALSE)

(***************************************************************************)
(* Service layer.                                                          *)
(***************************************************************************)
Valid == [ok |-> TRUE, message |-> "", details |-> {}]
Invalid(msg, details) == [ok |-> FALSE, message |-> msg, details |-> details]
Detail(field, code) == [field |-> field, code |-> code]

\* GuestService.normalizeGuest
NormalizeGuest(guest) ==
  [guest_id |-> guest.guest_id,
   english_name |-> guest.english_name,
   khmer_name |-> guest.khmer_name,
   amount_khr |-> Coalesce(guest.amount_khr, Num(0)),
   amount_usd |-> Coalesce(guest.amount_usd, Num(0)),
   payment_method |-> Coalesce(guest.payment_method, NULL),
   guest_of |-> guest.guest_of,
   is_duplicate |-> Bool(Truthy(guest.is_duplicate))]

\* return this.normalizeGuest(result) after a repository call that returned
Normalized(r) ==
  IF r.outcome = "ok" THEN [r EXCEPT !.result = NormalizeGuest(@)] ELSE r

\* !guestId || typeof guestId !== 'string' || guestId.trim().length === 0
InvalidGuestId(id) == ~Truthy(id) \/ NotNonBlankString(id)

\* GuestService.validateCreateGuestData
ValidateCreateGuestData(data) ==
  LET details ==
        (IF NotNonBlankString(data.guest_id) THEN {Detail("guest_id", "REQUIRED")} ELSE {})
        \cup (IF NotNonBlankString(data.english_name)
              THEN {Detail("english_name", "REQUIRED")} ELSE {})
        \cup (IF NotNonBlankString(data.khmer_name)
              THEN {Detail("khmer_name", "REQUIRED")} ELSE {})
        \cup (IF ~Truthy(data.guest_of) \/ data.guest_of.t # "string"
                 \/ data.guest_of.v \notin GuestOfValues
              THEN {Detail("guest_of", "INVALID_TYPE")} ELSE {})
      hasAmount == Positive(Coalesce(data.amount_khr, Num(0)))
                   \/ Positive(Coalesce(data.amount_usd, Num(0)))
  IN IF details # {} THEN Invalid("Validation failed", details)
     ELSE IF data.amount_khr # UNDEF /\ TypeOf(data.amount_khr) # "number"
     THEN Invalid("Validation failed", {})
     ELSE IF data.amount_khr # UNDEF /\ data.amount_khr.v < 0
     THEN Invalid("KHR amount cannot be negative", {})
     ELSE IF data.amount_usd # UNDEF /\ TypeOf(data.amount_usd) # "number"
     THEN Invalid("Validation failed", {})
     ELSE IF data.amount_usd # UNDEF /\ data.amount_usd.v < 0
     THEN Invalid("USD amount cannot be negative", {})
     ELSE IF hasAmount /\ ~Truthy(data.payment_method)
     THEN Invalid("Payment method is required when amount is provided", {})
     ELSE IF Truthy(data.payment_method)
             /\ (data.payment_method.t # "string" \/ data.payment_method.v \notin PaymentMethods)
     THEN Invalid("Validation failed", {})
     ELSE Valid

\* allowedFields of validateUpdateGuestData
ServiceUpdateAllowedFields ==
  {"english_name", "khmer_name", "amount_khr", "amount_usd", "payment_method", "guest_of",
   "is_duplicate"}

\* the per-amount check shared by the update and check-in validators
AmountDetails(x, field) ==
  IF x # UNDEF /\ (TypeOf(x) # "number" \/ x.v < 0)
  THEN {Detail(field, "INVALID_TYPE")} ELSE {}

\* GuestService.validateUpdateGuestData
ValidateUpdateGuestData(updates) ==
  LET providedFields == ObjectKeys(updates)
      details ==
        (IF updates.english_name # UNDEF /\ NotNonBlankString(updates.english_name)
         THEN {Detail("English name", "INVALID_TYPE")} ELSE {})
        \cup (IF updates.khmer_name # UNDEF /\ NotNonBlankString(updates.khmer_name)
              THEN {Detail("Khmer name", "INVALID_TYPE")} ELSE {})
        \cup AmountDetails(updates.amount_khr, "amount_khr")
        \cup AmountDetails(updates.amount_usd, "amount_usd")
  IN IF providedFields = {}
     THEN Invalid("At least one field must be provided for update", {})
     ELSE IF providedFields \ ServiceUpdateAllowedFields # {}
     THEN Invalid("Validation failed", {})
     ELSE IF details # {} THEN Invalid("Validation failed", details)
     ELSE IF updates.payment_method # UNDEF /\ updates.payment_method # NULL
             /\ (updates.payment_method.t # "string"
                 \/ updates.payment_method.v \notin PaymentMethods)
     THEN Invalid("Validation failed", {})
     ELSE IF updates.guest_of # UNDEF
             /\ (updates.guest_of.t # "string" \/ updates.guest_of.v \notin GuestOfValues)
     THEN Invalid("Validation failed", {})
     ELSE IF updates.is_duplicate # UNDEF /\ TypeOf(updates.is_duplicate) # "boolean"
     THEN Invalid("Validation failed", {})
     ELSE Valid

\* allowedFields of validateCheckedInGuestData
CheckInAllowedFields == {"amount_khr", "amount_usd", "payment_method"}

\* a check-in validator that forgets to reject keys outside allowedFields
ValidateCheckedInGuestDataAnyField(data) ==
  LET errors ==
        (IF data.payment_method = NULL
            \/ data.payment_method.t # "string"
            \/ data.payment_method.v \notin PaymentMethods
         THEN {Detail("payment_method", "INVALID_TYPE")} ELSE {})
        \cup AmountDetails(data.amount_khr, "amount_khr")
        \cup AmountDetails(data.amount_usd, "amount_usd")
  IN IF data.payment_method = UNDEF
     THEN Invalid("Payment method is required for check-in", {})
     ELSE IF errors # {} THEN Invalid("Validation failed", errors)
     ELSE Valid

\* GuestService.validateCheckedInGuestData
ValidateCheckedInGuestData(data) ==
  LET errors ==
        (IF data.payment_method = NULL
            \/ data.payment_method.t # "string"
            \/ data.payment_method.v \notin PaymentMethods
         THEN {Detail("payment_method", "INVALID_TYPE")} ELSE {})
        \cup AmountDetails(data.amount_khr, "amount_khr")
        \cup AmountDetails(data.amount_usd, "amount_usd")
        \cup {Detail(field, "INVALID_FIELD") : field \in ObjectKeys(data) \ CheckInAllowedFields}
  IN IF data.payment_method = UNDEF
     THEN Invalid("Payment method is required for check-in", {})
     ELSE IF errors # {} THEN Invalid("Validation failed", errors)
     ELSE Valid

\* the guest-id check made by getGuestById, updateGuest, checkInGuest and deleteGuest
ValidateGuestId(id) ==
  IF InvalidGuestId(id) THEN Invalid("Valid guest ID is required", {}) ELSE Valid

\* a caller to whom a failed error-log insert is thrown in place of the error
CallLogFailureThrown(op, id, data, soft, fault, v, r) ==
  [op |-> op, id |-> id, data |-> data, soft |-> soft, fault |-> fault,
   outcome |-> IF ~v.ok THEN "ValidationError"
               ELSE IF r.outcome # "ok" /\ fault = "errorlog" THEN "SqliteError"
               ELSE r.outcome,
   message |-> IF ~v.ok THEN v.message
               ELSE IF r.outcome # "ok" /\ fault = "errorlog" THEN "error_logs"
               ELSE r.message,
   details |-> v.details,
   repoCalled |-> v.ok,
   storage |-> IF v.ok THEN r.storage ELSE {},
   result |-> IF v.ok THEN r.result ELSE NULL,
   partial |-> v.ok /\ r.partial]

\* what the caller of a service method observes, recorded after every call
Call(op, id, data, soft, fault, v, r) ==
  [op |-> op, id |-> id, data |-> data, soft |-> soft, fault |-> fault,
   outcome |-> IF v.ok THEN r.outcome ELSE "ValidationError",
   message |-> IF v.ok THEN r.message ELSE v.message,
   details |-> v.details,
   repoCalled |-> v.ok,
   storage |-> IF v.ok THEN r.storage ELSE {},
   result |-> IF v.ok THEN r.result ELSE NULL,
   partial |-> v.ok /\ r.partial]

NoData == Obj(<<>>)

\* no call is being answered
Idle ==
  [op |-> "none", id |-> UNDEF, data |-> NoData, soft |-> TRUE, fault |-> "none",
   outcome |-> "ok", message |-> "", details |-> {}, repoCalled |-> FALSE,
   storage |-> {}, result |-> NULL, partial |-> FALSE]

\* the database the repository works on
Db == [g |-> guestlist, a |-> activity_logs, seq |-> activity_seq]

\* a validator that throws ends the call before the repository is reached
NotInvoked == Outcome("ValidationError", "", NULL, Db, error_logs, {}, FALSE)

\* effect of a service call on the stored state
Effect(r) ==
  /\ last = Idle
  /\ guestlist' = r.db.g
  /\ activity_logs' = r.db.a
  /\ activity_seq' = r.db.seq
  /\ error_logs' = r.e
  /\ activity_seq' <= MaxActivity
  /\ Len(error_logs') <= MaxErrors
  /\ UNCHANGED <<connection, inflight>>

\* GuestService.createGuest
CreateGuest(data, fault) ==
  \E v \in {ValidateCreateGuestData(data)} :
    \E r \in IF v.ok THEN {Normalized(RepoCreateGuest(Db, error_logs, data, fault))}
             ELSE {NotInvoked} :
      /\ Effect(r)
      /\ last' = Call("createGuest", data.guest_id, data, TRUE, fault, v, r)

\* GuestService.getGuestById
GetGuestById(id) ==
  \E v \in {ValidateGuestId(id)} :
    \E r \in IF v.ok THEN {Normalized(RepoGetGuestById(Db, error_logs, id.v))}
             ELSE {NotInvoked} :
      /\ Effect(r)
      /\ last' = Call("getGuestById", id, NoData, TRUE, "none", v, r)

\* GuestService.updateGuest
UpdateGuest(id, updates, fault) ==
  \E v \in {IF ValidateGuestId(id).ok THEN ValidateUpdateGuestData(updates)
            ELSE ValidateGuestId(id)} :
    \E r \in IF v.ok THEN {Normalized(RepoUpdateGuest(Db, error_logs, id.v, updates, fault))}
             ELSE {NotInvoked} :
      /\ Effect(r)
      /\ last' = Call("updateGuest", id, updates, TRUE, fault, v, r)

\* GuestService.checkInGuest
CheckInGuest(id, paymentData, fault) ==
  \E v \in {IF ValidateGuestId(id).ok THEN ValidateCheckedInGuestData(paymentData)
            ELSE ValidateGuestId(id)} :
    \E r \in IF v.ok
             THEN {Normalized(RepoCheckInGuest(Db, error_logs, id.v, paymentData, fault))}
             ELSE {NotInvoked} :
      /\ Effect(r)
      /\ last' = Call("checkInGuest", id, paymentData, TRUE, fault, v, r)

\* GuestService.deleteGuest
DeleteGuest(id, softDelete, fault) ==
  \E v \in {ValidateGuestId(id)} :
    \E r \in IF v.ok THEN {RepoDeleteGuest(Db, error_logs, id.v, softDelete, fault)}
             ELSE {NotInvoked} :
      /\ Effect(r)
      /\ last' = Call("deleteGuest", id, NoData, softDelete, fault, v, r)

\* limit ?? 50 in GuestService.searchGuests and the validator's upper limit
DefaultLimit == 50
MaxLimit == 100

\* GuestService.validateSearchRequest
ValidateSearchRequest(searchRequest) ==
  LET query == searchRequest.query
      limit == searchRequest.limit
      offset == searchRequest.offset
  IN IF query = NULL \/ query = UNDEF \/ TypeOf(query) # "string"
     THEN Invalid("Validation failed", {})
     ELSE IF TrimIsEmpty(query.v) THEN Invalid("Validation failed", {})
     ELSE IF Len(query.v) > MaxQueryLength THEN Invalid("Validation failed", {})
     ELSE IF searchRequest.searchType \notin SearchTypes
     THEN Invalid("Validation failed", {})
     ELSE IF limit # UNDEF /\ (TypeOf(limit) # "number" \/ limit.v < 1 \/ limit.v > MaxLimit)
     THEN Invalid("Validation failed", {})
     ELSE IF offset # UNDEF /\ (TypeOf(offset) # "number" \/ offset.v < 0)
     THEN Invalid("Validation failed", {})
     ELSE Valid

\* guests: result.guests.map(guest => this.normalizeGuest(guest))
NormalizedGuests(r) ==
  IF r.outcome = "ok"
  THEN [r EXCEPT !.result.guests = [i \in DOMAIN @ |-> NormalizeGuest(@[i])]]
  ELSE r

\* GuestService.searchGuests
SearchGuests(searchRequest) ==
  \E v \in {ValidateSearchRequest(searchRequest)} :
    \E r \in IF v.ok
             THEN {NormalizedGuests(x) :
                     x \in RepoSearchGuests(Db, error_logs, searchRequest.query,
                                            searchRequest.searchType,
                                            Coalesce(searchRequest.limit, Num(DefaultLimit)).v,
                                            Coalesce(searchRequest.offset, Num(0)).v, "none")}
             ELSE {NotInvoked} :
      /\ Effect(r)
      /\ last' = Call("searchGuests", UNDEF, searchRequest, TRUE, "none", v, r)

\* the limit quickSearch passes to the repository
QuickLimit == 20

\* result.guests.map(guest => ({...})) in quickSearch, which returns the list alone
QuickGuests(r) ==
  IF r.outcome = "ok"
  THEN [r EXCEPT !.result = [guests |-> [i \in DOMAIN @.guests |->
                                           SearchedGuest(@.guests[i])]]]
  ELSE r

\* GuestService.quickSearch: no validation, limit 20, offset 0
QuickSearch(query, searchType) ==
  \E r \in {QuickGuests(x) :
              x \in RepoSearchGuests(Db, error_logs, query, searchType, QuickLimit, 0, "none")} :
    /\ Effect(r)
    /\ last' = Call("quickSearch", UNDEF,
                    [query |-> query, searchType |-> searchType,
                     limit |-> Num(QuickLimit), offset |-> Num(0),
                     includeDuplicates |-> UNDEF],
                    TRUE, "none", Valid, r)

\* GuestService.getStatistics
GetStatistics ==
  \E r \in {RepoGetGuestStatistics(Db, error_logs)} :
    /\ Effect(r)
    /\ last' = Call("getStatistics", UNDEF, NoData, TRUE, "none", Valid, r)

\* the controller hands the settled result to the client; the next request follows
Respond ==
  /\ last # Idle
  /\ last' = Idle
  /\ UNCHANGED <<guestlist, activity_logs, activity_seq, error_logs, connection, inflight>>

(***************************************************************************)
(* Inputs.                                                                 *)
(***************************************************************************)
Blank == <<" ">>

IdInputs == {Str(G1), Str(G6), Str(N1), Str(Blank)}

\* the ids the writing calls are tried on (G6 is only read and checked in)
WriteIds == {Str(G1), Str(N1), Str(Blank)}

NewGuest == [guest_id |-> Str(N1), english_name |-> Str(<<"A">>), khmer_name |-> Str(<<"K">>),
             guest_of |-> Str(Bride)]

CreateInputs ==
  { Obj(NewGuest),
    Obj([NewGuest EXCEPT !.guest_id = Str(G1)]),
    Obj([NewGuest EXCEPT !.khmer_name = UNDEF]),
    Obj([NewGuest EXCEPT !.english_name = Str(Blank), !.khmer_name = UNDEF]),
    Obj(NewGuest @@ [amount_khr |-> Num(1), payment_method |-> Str(Cash)]),
    Obj(NewGuest @@ [amount_usd |-> Num(1)]),
    Obj([NewGuest EXCEPT !.khmer_name = UNDEF] @@ [amount_khr |-> Num(1)]) }

UpdateInputs ==
  { Obj(<<>>),
    Obj([nickname |-> Str(<<"A">>)]),
    Obj([english_name |-> Str(<<"A">>)]),
    Obj([amount_khr |-> Num(0 - 1)]),
    Obj([amount_khr |-> Num(1)]),
    Obj([amount_khr |-> Num(0), amount_usd |-> Num(0)]),
    Obj([payment_method |-> NULL]),
    Obj([is_duplicate |-> Bool(FALSE)]),
    Obj([guest_of |-> Str(Groom)]),
    Obj([guest_of |-> Str(Groom), amount_khr |-> Num(1)]) }

CheckInInputs ==
  { Obj([amount_khr |-> Num(1), payment_method |-> Str(Cash)]),
    Obj([amount_khr |-> Num(0), amount_usd |-> Num(0), payment_method |-> Str(Cash)]),
    Obj([amount_usd |-> Num(1), payment_method |-> Str(QR_Code)]),
    Obj([amount_khr |-> Num(0 - 1), payment_method |-> Str(Cash)]),
    Obj([amount_khr |-> Num(0 - 1)]),
    Obj([amount_khr |-> Num(1), payment_method |-> Str(Cash), guest_of |-> Str(Bride)]) }

\* statement failures are injected into calls on the stored guest G1
FaultsOn(id) == IF id = Str(G1) THEN Faults ELSE {"none"}

\* the updates and the check-in whose statements are made to fail
FaultedUpdates == {Obj([amount_khr |-> Num(1)]), Obj([payment_method |-> NULL])}
FaultedCheckIn == Obj([amount_khr |-> Num(1), payment_method |-> Str(Cash)])

\* a search for the english_name of the seeded guest G1
SeedSearch ==
  [query |-> Str(<<"S">>), searchType |-> "english_name", limit |-> UNDEF, offset |-> UNDEF,
   includeDuplicates |-> UNDEF]

Init ==
  /\ guestlist = SampleGuests
  /\ activity_logs = SampleActivity
  /\ activity_seq = Len(SampleActivity)
  /\ error_logs = <<>>
  /\ last = Idle
  /\ connection = NewConnection(DefaultMaxRetries)
  /\ inflight = NothingInFlight

Next ==
  \/ \E data \in CreateInputs, fault \in {"none", "errorlog"} : CreateGuest(data, fault)
  \/ \E id \in IdInputs : GetGuestById(id)
  \/ \E id \in WriteIds, updates \in UpdateInputs :
        \E fault \in IF updates \in FaultedUpdates THEN FaultsOn(id) ELSE {"none"} :
          UpdateGuest(id, updates, fault)
  \/ \E id \in IdInputs, paymentData \in CheckInInputs :
        \E fault \in IF paymentData = FaultedCheckIn THEN FaultsOn(id) ELSE {"none"} :
          CheckInGuest(id, paymentData, fault)
  \/ \E id \in WriteIds, softDelete \in BOOLEAN : \E fault \in FaultsOn(id) :
        DeleteGuest(id, softDelete, fault)
  \/ SearchGuests(SeedSearch)
  \/ Respond

Spec == Init /\ [][Next]_vars

\* check-in payloads over every shape of payment_method, the amounts and an extra key
CheckInPayloads ==
  { Obj([payment_method |-> pm, amount_khr |-> khr, amount_usd |-> usd, guest_of |-> extra]) :
      pm \in {UNDEF, NULL, Str(Cash), Str(QR_Code), Str(Bank)},
      khr \in {UNDEF, NULL, Num(0), Num(1), Num(0 - 1), Str(<<"1">>)},
      usd \in {UNDEF, Num(1), Num(0 - 1)},
      extra \in {UNDEF, Str(Bride)} }

NextCheckIn ==
  \/ \E id \in IdInputs, paymentData \in CheckInPayloads :
        CheckInGuest(id, paymentData, "none")
  \/ Respond

SpecCheckIn == Init /\ [][NextCheckIn]_vars

(***************************************************************************)
(* Searches and statistics over the guest tables earlier sessions can have *)
(* left in the database file: every row satisfies the schema, ids are      *)
(* distinct as the PRIMARY KEY compares them (exactly), amounts are the    *)
(* non-negative numbers the validators let through.                        *)
(***************************************************************************)
g1 == <<"g", "1">>
G_6 == <<"G", "_", "6">>
John == <<"J", "n">>
Johnny == <<"J", "n", "y">>
Sok == <<"s", "k">>
Sokha == <<"s", "k", "a">>

StoredIds == {G1, g1, G_6}

JohnProfile ==
  [name |-> Str(John), english_name |-> Str(John), khmer_name |-> Str(Sok),
   amount_khr |-> Num(1), amount_usd |-> Num(0), payment_method |-> Str(Cash),
   guest_of |-> Str(Bride)]

JohnnyProfile ==
  [name |-> Str(Johnny), english_name |-> Str(Johnny), khmer_name |-> Str(Sokha),
   amount_khr |-> Num(0), amount_usd |-> Num(0), payment_method |-> NULL,
   guest_of |-> Str(Groom)]

LowerJohnProfile ==
  [name |-> Str(Lower(John)), english_name |-> Str(Lower(John)), khmer_name |-> NULL,
   amount_khr |-> Num(0), amount_usd |-> Num(1), payment_method |-> Str(QR_Code),
   guest_of |-> Str(Bride_Parents)]

\* the guests an id can stand for
GuestProfiles(id) ==
  IF id = G1 THEN {JohnProfile, JohnnyProfile, LowerJohnProfile}
  ELSE IF id = g1 THEN {JohnProfile, JohnnyProfile}
  ELSE {LowerJohnProfile}

StoredRows(id) ==
  { p @@ [guest_id |-> Str(id), is_duplicate |-> Num(d), created_at |-> Num(c)] :
      p \in GuestProfiles(id), d \in {0, 1}, c \in {1, 2} }

GuestTables ==
  UNION { {g \in [ids -> UNION {StoredRows(id) : id \in ids}] :
             \A id \in ids : g[id].guest_id = Str(id)} : ids \in SUBSET StoredIds }

SearchRequest(query, searchType) ==
  [query |-> query, searchType |-> searchType, limit |-> UNDEF, offset |-> UNDEF,
   includeDuplicates |-> UNDEF]

SearchInputs ==
  { SearchRequest(Str(Lower(John)), "english_name"),
    [SearchRequest(Str(<<"J", "N">>), "english_name") EXCEPT !.limit = Num(1)],
    [SearchRequest(Str(John), "english_name") EXCEPT !.offset = Num(1)],
    [SearchRequest(Str(John), "english_name") EXCEPT !.includeDuplicates = Bool(TRUE)],
    SearchRequest(Str(<<"y">>), "english_name"),
    SearchRequest(Str(<<" ", "j", "n">>), "english_name"),
    SearchRequest(Str(<<"_">>), "english_name"),
    SearchRequest(Str(<<"'">>), "english_name"),
    SearchRequest(Str(Sok), "khmer_name"),
    [SearchRequest(Str(<<"S", "K", "A">>), "khmer_name") EXCEPT !.offset = Num(0)],
    SearchRequest(Str(g1), "guest_id"),
    [SearchRequest(Str(G1), "guest_id") EXCEPT !.offset = Num(1)],
    [SearchRequest(Str(<<"g", "_", "6">>), "guest_id") EXCEPT !.includeDuplicates = Bool(TRUE)],
    SearchRequest(NULL, "guest_id"),
    SearchRequest(Str(Blank), "english_name"),
    SearchRequest(Str(John), "name"),
    [SearchRequest(Str(John), "english_name") EXCEPT !.limit = Num(0)],
    [SearchRequest(Str(John), "english_name") EXCEPT !.limit = Num(MaxLimit + 1)],
    [SearchRequest(Str(John), "english_name") EXCEPT !.offset = Num(0 - 1)] }

\* the (query, searchType) pairs handed to quickSearch
QuickSearchInputs ==
  { <<Str(<<>>), "english_name">>, <<Str(Blank), "khmer_name">>, <<Str(Blank), "name">>,
    <<Str(<<";", "'">>), "guest_id">>, <<Str(John), "english_name">> }

InitSearch ==
  /\ guestlist \in GuestTables
  /\ activity_logs = <<>>
  /\ activity_seq = 0
  /\ error_logs = <<>>
  /\ last = Idle
  /\ connection = NewConnection(DefaultMaxRetries)
  /\ inflight = NothingInFlight

NextSearch ==
  \/ \E searchRequest \in SearchInputs : SearchGuests(searchRequest)
  \/ \E q \in QuickSearchInputs : QuickSearch(q[1], q[2])
  \/ GetStatistics
  \/ Respond

SpecSearch == InitSearch /\ [][NextSearch]_vars

(***************************************************************************)
(* updateGuest and checkInGuest calls that overlap: each call reads the    *)
(* guest, yields at its await, and runs the rest when it is resumed.       *)
(***************************************************************************)
\* a service call up to  await this.getGuestById(guestId)  in the repository: the
\* validators have passed and the guest was found (a call that throws before the
\* await leaves nothing in flight and nothing changed)
BeginCall(c, op, id, data) ==
  /\ inflight[c] = NoRequest
  /\ ValidateGuestId(Str(id)).ok
  /\ IF op = "updateGuest" THEN ValidateUpdateGuestData(data).ok
     ELSE ValidateCheckedInGuestData(data).ok
  /\ id \in DOMAIN guestlist
  /\ inflight' = [inflight EXCEPT ![c] = [op |-> op, id |-> id, data |-> data,
                                          currentGuest |-> ReadGuest(guestlist, id)]]
  /\ UNCHANGED <<guestlist, activity_logs, activity_seq, error_logs, last, connection>>

\* the call is resumed: the rest of the repository method runs to its end
CompleteCall(c) ==
  /\ inflight[c] # NoRequest
  /\ LET call == inflight[c]
         r == IF call.op = "updateGuest"
              THEN UpdateGuestAfterRead(Db, error_logs, call.id, call.data,
                                        call.currentGuest, "none")
              ELSE CheckInGuestAfterRead(Db, error_logs, call.id, call.data,
                                         call.currentGuest, "none")
     IN /\ guestlist' = r.db.g
        /\ activity_logs' = r.db.a
        /\ activity_seq' = r.db.seq
        /\ error_logs' = r.e
        /\ activity_seq' <= MaxActivity
        /\ Len(error_logs') <= MaxErrors
  /\ inflight' = [inflight EXCEPT ![c] = NoRequest]
  /\ UNCHANGED <<last, connection>>

\* the calls made while another may be in flight
InterleaveInputs ==
  { <<"updateGuest", Obj([amount_khr |-> Num(2)])>>,
    <<"updateGuest", Obj([amount_khr |-> Num(3), amount_usd |-> Num(0)])>>,
    <<"checkInGuest", Obj([amount_usd |-> Num(1), payment_method |-> Str(QR_Code)])>> }

\* the seeded guests with an activity log that is still empty
InitInterleave ==
  /\ guestlist = SampleGuests
  /\ activity_logs = <<>>
  /\ activity_seq = 0
  /\ error_logs = <<>>
  /\ last = Idle
  /\ connection = NewConnection(DefaultMaxRetries)
  /\ inflight = NothingInFlight

NextInterleave ==
  \/ \E c \in Callers, id \in {G1, G6}, call \in InterleaveInputs :
        BeginCall(c, call[1], id, call[2])
  \/ \E c \in Callers : CompleteCall(c)

SpecInterleave == InitInterleave /\ [][NextInterleave]_vars

(***************************************************************************)
(* connect() called by one caller after another, and by callers whose      *)
(* calls overlap; config.maxRetries is any number up to the default.       *)
(***************************************************************************)
InitConnect ==
  /\ guestlist = SampleGuests
  /\ activity_logs = SampleActivity
  /\ activity_seq = Len(SampleActivity)
  /\ error_logs = <<>>
  /\ last = Idle
  /\ connection \in {NewConnection(maxRetries) : maxRetries \in 1..DefaultMaxRetries}
  /\ inflight = NothingInFlight

NextConnect ==
  \/ \E c \in Callers : Connect(c, TRUE)
  \/ \E c \in Callers : SchemaInitialized(c)
  \/ \E c \in Callers : RetryDelayElapsed(c)
  \/ \E c \in Callers : ConnectSettled(c)

SpecConnect == InitConnect /\ [][NextConnect]_vars

NextConnectRace ==
  \/ \E c \in Callers : Connect(c, FALSE)
  \/ \E c \in Callers : SchemaInitialized(c)
  \/ \E c \in Callers : RetryDelayElapsed(c)
  \/ \E c \in Callers : ConnectSettled(c)

SpecConnectRace == InitConnect /\ [][NextConnectRace]_vars

(***************************************************************************)
(* Properties.                                                             *)
(***************************************************************************)
WriteOps == {"createGuest", "updateGuest", "checkInGuest", "deleteGuest"}

\* amount_khr > 0 or amount_usd > 0 in a stored row
Paid(row) == Positive(row.amount_khr) \/ Positive(row.amount_usd)

\* C1: in every reachable state, every stored guest with amount_khr > 0 or
\* amount_usd > 0 has a non-null payment_method.
C1_PaidGuestHasPaymentMethod ==
  \A id \in DOMAIN guestlist : Paid(guestlist[id]) => guestlist[id].payment_method # NULL

\* C2: a createGuest, updateGuest, checkInGuest or deleteGuest call that does not
\* succeed (a statement of its transaction failed, the activity-log insert
\* included) leaves no guest-row change and no activity-log row of that call.
C2_AllOrNothing ==
  [][(last'.op \in WriteOps /\ last'.outcome # "ok")
       => /\ guestlist' = guestlist
          /\ activity_logs' = activity_logs
          /\ activity_seq' = activity_seq]_vars

\* C2 witness: a transaction had changed the database when one of its statements threw
C2_Witness ==
  /\ last.op \in WriteOps
  /\ last.partial
  /\ last.outcome = "SqliteError"

\* C3: createGuest with a request that passes validation and a guest_id already
\* in the guest table (active or soft-deleted) fails with ConflictError and leaves
\* the guest table and the activity log as they were.
C3_DuplicateIdConflict ==
  [][(last'.op = "createGuest" /\ last'.repoCalled /\ last'.id.v \in DOMAIN guestlist)
       => /\ last'.outcome = "ConflictError"
          /\ guestlist' = guestlist
          /\ activity_logs' = activity_logs
          /\ activity_seq' = activity_seq]_vars

\* C3 witness: createGuest answered ConflictError for the id of a soft-deleted row
C3_Witness ==
  /\ last.op = "createGuest"
  /\ last.outcome = "ConflictError"
  /\ last.id.v \in DOMAIN guestlist
  /\ guestlist[last.id.v].is_duplicate = Num(1)

\* C4: a service call that ends with a ValidationError performed no storage read
\* or write (guest table, activity log, error log).
C4_ValidationBeforeStorage ==
  last.outcome = "ValidationError" => last.storage = {}

\* the guest a getGuestById issued right after the step would return
C5_RoundTrip(data, got) ==
  /\ got.guest_id = data.guest_id
  /\ got.english_name = data.english_name
  /\ got.khmer_name = data.khmer_name
  /\ got.amount_khr = Coalesce(data.amount_khr, Num(0))
  /\ got.amount_usd = Coalesce(data.amount_usd, Num(0))
  /\ got.payment_method = Coalesce(data.payment_method, NULL)
  /\ got.is_duplicate = Bool(FALSE)

\* C5: createGuest with a request that passes validation and a guest_id not yet
\* stored succeeds, and getGuestById then returns the same guest_id, names, amounts
\* (0 when absent), payment_method (null when absent) and is_duplicate = false.
C5_CreateThenGet ==
  [][(last'.op = "createGuest" /\ last'.repoCalled /\ last'.fault = "none"
        /\ last'.id.v \notin DOMAIN guestlist)
       => /\ last'.outcome = "ok"
          /\ last'.id.v \in DOMAIN guestlist'
          /\ C5_RoundTrip(last'.data,
                          NormalizeGuest(ReadGuest(guestlist', last'.id.v)))]_vars

\* a non-blank string
NonBlank(x) == ~NotNonBlankString(x)

\* an amount that is absent or a non-negative number
AmountOk(x) == x = UNDEF \/ (x.t = "number" /\ x.v >= 0)

\* guest_id, guest_of and the names as the creation contract asks for them:
\* non-blank guest_id, guest_of of the enum, at least one name non-blank
RequiredFieldsGiven(data) ==
  /\ NonBlank(data.guest_id)
  /\ data.guest_of.t = "string" /\ data.guest_of.v \in GuestOfValues
  /\ NonBlank(data.english_name) \/ NonBlank(data.khmer_name)
  /\ AmountOk(data.amount_khr) /\ AmountOk(data.amount_usd)

\* C6: createGuest with otherwise valid fields, a positive amount and no
\* payment_method fails with ValidationError 'Payment method is required when
\* amount is provided' and never invokes the repository.
C6_AmountNeedsPaymentMethod ==
  (/\ last.op = "createGuest"
   /\ RequiredFieldsGiven(last.data)
   /\ Positive(last.data.amount_khr) \/ Positive(last.data.amount_usd)
   /\ last.data.payment_method = UNDEF)
  => /\ last.outcome = "ValidationError"
     /\ last.message = "Payment method is required when amount is provided"
     /\ ~last.repoCalled

\* C7: createGuest accepts a request with a non-blank guest_id, a valid guest_of
\* and at least one of english_name / khmer_name non-blank; only a request with
\* both names missing or blank is rejected for its names.
C7_OneNameSuffices ==
  (/\ last.op = "createGuest"
   /\ RequiredFieldsGiven(last.data)
   /\ last.data.amount_khr = UNDEF /\ last.data.amount_usd = UNDEF
   /\ last.data.payment_method = UNDEF)
  => last.repoCalled /\ last.outcome # "ValidationError"

\* a check-in payload of allowed keys with a valid method and a positive amount
ValidPaidCheckIn(data) ==
  /\ ObjectKeys(data) \subseteq CheckInAllowedFields
  /\ data.payment_method.t = "string" /\ data.payment_method.v \in PaymentMethods
  /\ AmountOk(data.amount_khr) /\ AmountOk(data.amount_usd)
  /\ Positive(data.amount_khr) \/ Positive(data.amount_usd)

\* C8: checkInGuest on an existing guest with a valid payload of positive amount
\* succeeds whatever was stored before (a first or a repeated check-in), and the
\* stored amounts and payment_method then equal the payload's (absent amount as 0).
C8_CheckInOverwrites ==
  [][(/\ last'.op = "checkInGuest" /\ last'.fault = "none"
      /\ last'.id.v \in DOMAIN guestlist
      /\ ValidPaidCheckIn(last'.data))
       => /\ last'.outcome = "ok"
          /\ guestlist'[last'.id.v].amount_khr = Coalesce(last'.data.amount_khr, Num(0))
          /\ guestlist'[last'.id.v].amount_usd = Coalesce(last'.data.amount_usd, Num(0))
          /\ guestlist'[last'.id.v].payment_method = last'.data.payment_method]_vars

\* C9: checkInGuest on an existing guest with a valid payment_method and both
\* amounts zero succeeds and returns the guest with amount_khr = 0 and amount_usd = 0.
C9_ZeroAmountCheckIn ==
  (/\ last.op = "checkInGuest" /\ last.fault = "none"
   /\ last.id.v \in DOMAIN guestlist
   /\ ObjectKeys(last.data) = CheckInAllowedFields
   /\ last.data.amount_khr = Num(0) /\ last.data.amount_usd = Num(0)
   /\ last.data.payment_method.t = "string"
   /\ last.data.payment_method.v \in PaymentMethods)
  => /\ last.outcome = "ok"
     /\ last.result.amount_khr = Num(0)
     /\ last.result.amount_usd = Num(0)

\* an amount that is given and is not a number or is negative
BadAmount(x) == x # UNDEF /\ (x.t # "number" \/ x.v < 0)

\* the payloads the check-in contract rejects
CheckInRejected(data) ==
  \/ data.payment_method = UNDEF
  \/ data.payment_method \notin {Str(QR_Code), Str(Cash)}
  \/ BadAmount(data.amount_khr) \/ BadAmount(data.amount_usd)
  \/ \E k \in ObjectKeys(data) : k \notin {"amount_khr", "amount_usd", "payment_method"}

\* checkInGuest with a non-blank id fails in validation exactly on rejected payloads
C10_RejectedExactly ==
  (last.outcome = "ValidationError" /\ ~last.repoCalled) <=> CheckInRejected(last.data)

\* every bad amount of the answered call has its INVALID_TYPE detail record
C10_BadAmountsDetailed ==
  \A field \in {"amount_khr", "amount_usd"} :
    BadAmount(last.data[field]) => Detail(field, "INVALID_TYPE") \in last.details

\* C10 as stated: checkInGuest with a non-blank id fails with ValidationError,
\* without invoking the repository, exactly when the payload lacks payment_method,
\* has one outside {QR_Code, Cash} (null included), has a non-numeric or negative
\* amount, or has a key outside the allowed three; and a negative or non-numeric
\* amount yields a detail record with that field and code INVALID_TYPE.
C10_AsStated ==
  (last.op = "checkInGuest" /\ ~InvalidGuestId(last.id))
  => C10_RejectedExactly /\ C10_BadAmountsDetailed

\* C10 amended: as C10, with the detail record promised only when the payload
\* carries a payment_method (a payload without one is rejected before the amounts
\* are looked at, with no detail records).
C10_CheckInValidation ==
  (last.op = "checkInGuest" /\ ~InvalidGuestId(last.id))
  => /\ C10_RejectedExactly
     /\ last.data.payment_method # UNDEF => C10_BadAmountsDetailed
     /\ last.data.payment_method = UNDEF => last.details = {}

\* C10 witness: a negative amount beside a valid payment_method was answered with
\* its detail record
C10_Witness ==
  /\ last.op = "checkInGuest"
  /\ ~InvalidGuestId(last.id)
  /\ last.data.payment_method = Str(Cash)
  /\ last.data.amount_khr = Num(0 - 1)
  /\ last.outcome = "ValidationError"
  /\ ~last.repoCalled
  /\ Detail("amount_khr", "INVALID_TYPE") \in last.details

\* C11: after a successful soft deleteGuest(id) the row still exists and
\* getGuestById(id) returns it with is_duplicate = true; its names, amounts,
\* payment_method and guest_of, and every other guest row, are unchanged.
C11_SoftDeleteFrame ==
  [][(last'.op = "deleteGuest" /\ last'.soft /\ last'.outcome = "ok")
       => /\ DOMAIN guestlist' = DOMAIN guestlist
          /\ last'.id.v \in DOMAIN guestlist'
          /\ ReadGuest(guestlist', last'.id.v).is_duplicate = Bool(TRUE)
          /\ \A c \in DOMAIN guestlist[last'.id.v] \ {"is_duplicate"} :
                guestlist'[last'.id.v][c] = guestlist[last'.id.v][c]
          /\ \A other \in DOMAIN guestlist \ {last'.id.v} :
                guestlist'[other] = guestlist[other]]_vars

\* C11 witness: a soft delete succeeded on a stored guest beside another guest row
C11_Witness ==
  /\ last.op = "deleteGuest" /\ last.soft /\ last.outcome = "ok"
  /\ last.id.v \in DOMAIN guestlist
  /\ guestlist[last.id.v].is_duplicate = Num(1)
  /\ DOMAIN guestlist \ {last.id.v} # {}

\* the stored rows a finished search matched, duplicates included
MatchedBy(result) ==
  {id \in DOMAIN guestlist :
     SearchMatches(guestlist[id], result.query_used, result.search_type)}

\* C12: whatever the search type, query, limit and offset, a search that returns
\* hands back no guest whose is_duplicate is true (neither as returned nor as stored),
\* and total_count counts none: it does not exceed the number of matching rows that
\* are not duplicates.
C12_SearchExcludesDuplicates ==
  (last.op = "searchGuests" /\ last.outcome = "ok")
    => /\ \A i \in DOMAIN last.result.guests :
            /\ last.result.guests[i].is_duplicate = Bool(FALSE)
            /\ guestlist[last.result.guests[i].guest_id.v].is_duplicate = Num(0)
       /\ last.result.total_count <=
            Cardinality({id \in MatchedBy(last.result) : guestlist[id].is_duplicate = Num(0)})

\* a search returned a guest while a soft-deleted row matched the same query
C12_Witness ==
  /\ last.op = "searchGuests" /\ last.outcome = "ok"
  /\ Len(last.result.guests) > 0
  /\ \E id \in MatchedBy(last.result) : guestlist[id].is_duplicate = Num(1)

\* C13: once a hard deleteGuest(id, soft = false) has succeeded, getGuestById(id) fails
\* with NotFoundError and no activity-log row carries that guest_id, the 'deleted' row
\* written by the same call included.
C13_HardDeleteRemovesEverything ==
  (last.op = "deleteGuest" /\ ~last.soft /\ last.outcome = "ok")
    => /\ ValidateGuestId(last.id).ok
       /\ RepoGetGuestById(Db, error_logs, last.id.v).outcome = "NotFoundError"
       /\ \A i \in DOMAIN activity_logs : activity_logs[i].guest_id # last.id.v

\* a guest with activity rows was hard-deleted, and the call's own 'deleted' row took
\* a number from the sequence
C13_Witness ==
  /\ last.op = "deleteGuest" /\ ~last.soft /\ last.outcome = "ok"
  /\ last.id.v = G1
  /\ activity_seq > Len(SampleActivity)
  /\ Len(activity_logs) < Len(SampleActivity)

EqualsQuery(name, query) == Lower(name) = Lower(query)

\* name contains the query case-insensitively without equalling it
OnlyContainsQuery(name, query) ==
  /\ ~EqualsQuery(name, query)
  /\ \E k \in 1..Len(name) :
        k + Len(query) - 1 <= Len(name)
        /\ SubSeq(Lower(name), k, k + Len(query) - 1) = Lower(query)

\* C15: in the list an english_name or khmer_name search returns, no guest whose name
\* only contains the query comes before a guest whose name equals it, and two guests
\* of the same tier (both equal, or both only containing) come newest first.
C15_ExactBeforeSubstring ==
  (last.op = "searchGuests" /\ last.outcome = "ok"
   /\ last.data.searchType \in {"english_name", "khmer_name"})
    => LET guests == last.result.guests
           query == last.data.query.v
           NameOf(i) == guests[i][last.data.searchType].v
           CreatedAt(i) == guestlist[guests[i].guest_id.v].created_at.v
       IN \A i, j \in DOMAIN guests :
            i < j =>
              /\ ~(OnlyContainsQuery(NameOf(i), query) /\ EqualsQuery(NameOf(j), query))
              /\ (EqualsQuery(NameOf(i), query) /\ EqualsQuery(NameOf(j), query))
                    => CreatedAt(i) >= CreatedAt(j)
              /\ (OnlyContainsQuery(NameOf(i), query) /\ OnlyContainsQuery(NameOf(j), query))
                    => CreatedAt(i) >= CreatedAt(j)

\* a search for "jn" returned Jn, created first, ahead of the newer Jny, and two
\* exact matches newest first
C15_Witness ==
  /\ last.op = "searchGuests" /\ last.outcome = "ok"
  /\ last.data.searchType = "english_name"
  /\ Len(last.result.guests) = 3
  /\ EqualsQuery(last.result.guests[1].english_name.v, last.data.query.v)
  /\ EqualsQuery(last.result.guests[2].english_name.v, last.data.query.v)
  /\ OnlyContainsQuery(last.result.guests[3].english_name.v, last.data.query.v)
  /\ guestlist[last.result.guests[1].guest_id.v].created_at.v
       > guestlist[last.result.guests[2].guest_id.v].created_at.v
  /\ guestlist[last.result.guests[3].guest_id.v].created_at.v
       > guestlist[last.result.guests[2].guest_id.v].created_at.v

\* the stored guests that are not duplicates
ActiveGuests == {id \in DOMAIN guestlist : ~Truthy(guestlist[id].is_duplicate)}

RECURSIVE AmountOver(_, _)
AmountOver(ids, column) ==
  IF ids = {} THEN 0
  ELSE LET id == CHOOSE x \in ids : TRUE
       IN guestlist[id][column].v + AmountOver(ids \ {id}, column)

\* C16: getGuestStatistics returns total_guests = the number of guests that are not
\* duplicates, paid_guests = the number of those with a positive amount, pending_guests
\* = the number of those with both amounts zero, and amount sums over those guests
\* only: soft-deleted guests add to none of them.
C16_StatisticsOverActiveGuests ==
  last.op = "getStatistics"
    => /\ last.outcome = "ok"
       /\ last.result.total_guests = Cardinality(ActiveGuests)
       /\ last.result.paid_guests =
            Cardinality({id \in ActiveGuests : \/ guestlist[id].amount_khr.v > 0
                                               \/ guestlist[id].amount_usd.v > 0})
       /\ last.result.pending_guests =
            Cardinality({id \in ActiveGuests : /\ guestlist[id].amount_khr.v = 0
                                               /\ guestlist[id].amount_usd.v = 0})
       /\ last.result.total_khr = AmountOver(ActiveGuests, "amount_khr")
       /\ last.result.total_usd = AmountOver(ActiveGuests, "amount_usd")

\* statistics over a paid and a pending active guest beside a soft-deleted paid one
C16_Witness ==
  /\ last.op = "getStatistics"
  /\ last.result.total_guests = 2
  /\ last.result.paid_guests = 1
  /\ last.result.pending_guests = 1
  /\ \E id \in DOMAIN guestlist \ ActiveGuests : guestlist[id].amount_usd.v > 0

\* the repository call behind a service call, made on the current database
RepoCall(op, id, data, soft, fault) ==
  CASE op = "createGuest" -> RepoCreateGuest(Db, error_logs, data, fault)
    [] op = "updateGuest" -> RepoUpdateGuest(Db, error_logs, id.v, data, fault)
    [] op = "checkInGuest" -> RepoCheckInGuest(Db, error_logs, id.v, data, fault)
    [] op = "deleteGuest" -> RepoDeleteGuest(Db, error_logs, id.v, soft, fault)

Unpaid(row) == row.amount_khr = Num(0) /\ row.amount_usd = Num(0)

\* C18: a stored guest that is paid (a positive amount, payment_method set) and is
\* kept by a step is not unpaid (both amounts zero) after it.
C18_PaidStaysPaid ==
  [][\A id \in DOMAIN guestlist \cap DOMAIN guestlist' :
       (Paid(guestlist[id]) /\ guestlist[id].payment_method # NULL)
         => ~Unpaid(guestlist'[id])]_vars

\* C19: is_duplicate of a stored guest changes from false to true only: a guest that
\* is soft-deleted and kept by a step is still soft-deleted after it.
C19_NoReactivation ==
  [][\A id \in DOMAIN guestlist \cap DOMAIN guestlist' :
       Truthy(guestlist[id].is_duplicate) => Truthy(guestlist'[id].is_duplicate)]_vars

\* C20: the stored guest_of of a guest never changes: every step that keeps a guest,
\* whether updateGuest, checkInGuest or a soft deleteGuest, leaves its guest_of as it was.
C20_GuestOfImmutable ==
  [][\A id \in DOMAIN guestlist \cap DOMAIN guestlist' :
       guestlist'[id].guest_of = guestlist[id].guest_of]_vars

\* an updateGuest that carried another guest_of succeeded and changed the amount only
C20_Witness ==
  /\ last.op = "updateGuest" /\ last.outcome = "ok"
  /\ last.data.guest_of = Str(Groom)
  /\ last.id.v \in DOMAIN guestlist
  /\ guestlist[last.id.v].guest_of = Str(Bride)
  /\ guestlist[last.id.v].amount_khr = last.data.amount_khr

\* the counts of a connect() call: attempts made and retryDelay waits begun
ConnectCounts(conn, c) ==
  LET call == conn.calls[c]
  IN /\ call.attempts <= conn.maxRetries
     /\ call.pc = "initializeSchema" => call.waits = call.attempts - 1
     /\ call.pc = "retryDelay" => call.waits = call.attempts /\ call.attempts < conn.maxRetries
     /\ (call.pc = "returned" /\ call.attempts > 0) => call.waits = call.attempts - 1
     /\ call.pc = "failed" => /\ call.attempts = conn.maxRetries
                              /\ call.waits = conn.maxRetries - 1
                              /\ conn.db = NoHandle

\* a handle is stored and initialised: it stays, and a connect() call that starts
\* returns it without an attempt
Memoized(conn, after) ==
  (conn.db # NoHandle /\ conn.isInitialized)
    => /\ after.db = conn.db /\ after.isInitialized /\ after.opened = conn.opened
       /\ \A c \in Callers :
            (conn.calls[c].pc = "idle" /\ after.calls[c].pc # "idle")
              => /\ after.calls[c].pc = "returned"
                 /\ after.calls[c].result = conn.db
                 /\ after.calls[c].attempts = 0

\* C21: a connect() call makes at most maxRetries attempts and waits retryDelay
\* between two attempts but not after the last; a call whose attempts all failed ends
\* with an error and no handle stored; once a connect() has succeeded, every later
\* connect() called in sequence returns that handle without an attempt.
C21_BoundedRetriesAndMemo ==
  /\ [](\A c \in Callers : ConnectCounts(connection, c))
  /\ [][Memoized(connection, connection')]_vars

\* a call with maxRetries = 3 failed after three attempts, two of which opened a
\* handle that was closed again
C21_Witness ==
  \E c \in Callers :
    /\ connection.maxRetries = DefaultMaxRetries
    /\ connection.calls[c].pc = "failed"
    /\ connection.calls[c].attempts = DefaultMaxRetries
    /\ connection.calls[c].waits = DefaultMaxRetries - 1
    /\ Cardinality(connection.closed) >= 2
    /\ connection.db = NoHandle

\* C30: when connect() calls interleave, every handle that connect has opened is
\* either the handle stored for all callers or has been closed.
C30_NoLeakedHandle ==
  \A h \in 1..connection.opened : h = connection.db \/ h \in connection.closed

\* the rows a step appended to the activity log
Appended(before, after) ==
  {after[i] : i \in (Len(before) + 1)..Len(after)}

C23_OneUpdatedRow ==
  [][(last'.op = "updateGuest" /\ last'.outcome = "ok")
       => /\ Len(activity_logs') = Len(activity_logs) + 1
          /\ LET row == activity_logs'[Len(activity_logs')]
                 id == last'.id.v
             IN /\ row.guest_id = id /\ row.action = "updated"
                /\ last'.data.amount_khr # UNDEF
                     => /\ row.old_amount_khr = guestlist[id].amount_khr
                        /\ row.new_amount_khr = last'.data.amount_khr
                /\ last'.data.amount_usd # UNDEF
                     => /\ row.old_amount_usd = guestlist[id].amount_usd
                        /\ row.new_amount_usd = last'.data.amount_usd]_vars

\* C24: a searchGuests call that returns with a sanitized query that is not empty
\* leaves exactly one new activity-log row, with guest_id SEARCH and action searched.
C24_SearchLogged ==
  [][(/\ last'.op = "searchGuests" /\ last'.outcome = "ok" /\ last'.repoCalled
      /\ last'.result.query_used # <<>>)
       => /\ Len(activity_logs') = Len(activity_logs) + 1
          /\ activity_logs'[Len(activity_logs')].guest_id = SEARCH
          /\ activity_logs'[Len(activity_logs')].action = "searched"]_vars

\* C25: a search whose query sanitizes to the empty string, made through searchGuests
\* (a query of quote, semicolon or backslash characters) or through quickSearch (a
\* blank query as well), returns zero guests and total_count 0, runs no query
\* against storage, and leaves the guest table and both logs as they were.
C25_EmptyQueryShortCircuit ==
  [][(/\ last'.op \in {"searchGuests", "quickSearch"} /\ last'.repoCalled
      /\ TypeOf(last'.data.query) = "string"
      /\ \A i \in DOMAIN Trim(last'.data.query.v) :
            Trim(last'.data.query.v)[i] \in InjectionCharacters)
       => /\ last'.outcome = "ok"
          /\ last'.result.guests = <<>>
          /\ last'.op = "searchGuests" => last'.result.total_count = 0
          /\ last'.storage = {}
          /\ UNCHANGED <<guestlist, activity_logs, activity_seq, error_logs>>]_vars

\* searchGuests was given a query of one quote character, which passes the service,
\* while a guest is stored
C25_Witness ==
  /\ last.op = "searchGuests" /\ last.repoCalled
  /\ last.data.query = Str(<<"'">>)
  /\ last.outcome = "ok" /\ last.result.total_count = 0
  /\ guestlist # <<>>

\* before is kept, row for row, at the start of after
KeptAtStart(before, after) ==
  Len(after) >= Len(before) /\ SubSeq(after, 1, Len(before)) = before

\* C26: the activity log is append-only under every operation but hard delete: after
\* a create, update, check-in, soft delete, search or failed call every row that
\* existed before is still there unchanged; a successful hard delete removes rows
\* of the deleted guest only.
C26_AppendOnlyLog ==
  [][IF last'.op = "deleteGuest" /\ ~last'.soft /\ last'.outcome = "ok"
     THEN KeptAtStart(SelectSeq(activity_logs, LAMBDA r : r.guest_id # last'.id.v),
                      activity_logs')
     ELSE KeptAtStart(activity_logs, activity_logs')]_vars

\* a soft delete has succeeded and added its row behind the rows stored before
C26_Witness ==
  /\ last.op = "deleteGuest" /\ last.soft /\ last.outcome = "ok"
  /\ Len(activity_logs) > Len(SampleActivity)
  /\ KeptAtStart(SampleActivity, activity_logs)

\* C27: an update payload that passes the service validation holds at least one field
\* of the repository whitelist, so updateGuest with it is never rejected by the
\* repository with No valid fields provided for update.
C27_ServiceValidIsRepoValid ==
  (last.op = "updateGuest" /\ last.repoCalled)
    => /\ ObjectKeys(last.data) \cap RepoUpdateAllowedFields # {}
       /\ last.message # "No valid fields provided for update"

\* C28: every action the repository writes to the activity log is admitted by the
\* CHECK constraint on activity_logs.action: a log row for a stored guest with any
\* of these actions is inserted, not rejected.
C28_WrittenActionsAdmitted ==
  \A id \in DOMAIN guestlist, action \in RepoWrittenActions :
    InsertActivityRow(Db, LogRow(id, action, NULL, NULL, NULL, NULL)).err = "none"

\* C29: when updateGuest or checkInGuest calls for the same guest interleave at their
\* awaits, every activity-log row a call appends records as old amounts the amounts
\* that were stored immediately before that call's own update was applied, and a row
\* is logged as checked_in only if the guest was unpaid at that moment (so at most
\* one of two interleaved check-ins of an unpaid guest is).
C29_OldAmountsAreCurrent ==
  [][\A row \in Appended(activity_logs, activity_logs') :
       /\ row.old_amount_khr # NULL
            => row.old_amount_khr = guestlist[row.guest_id].amount_khr
       /\ row.old_amount_usd # NULL
            => row.old_amount_usd = guestlist[row.guest_id].amount_usd
       /\ row.action = "checked_in" => Unpaid(guestlist[row.guest_id])]_vars

====
